---- MODULE Spec2Model ----
(***************************************************************************)
(* mqttshell: a shell tunnelled through an MQTT broker.                    *)
(*   agent      (src/agent/src/main.rs): owns the PTY and the child shell, *)
(*              restarts the whole epoch when the shell exits.             *)
(*   controller (src/controller/src/main.rs): encodes local key events,    *)
(*              renders remote output, watches the local terminal size.    *)
(*                                                                         *)
(* Specifications:                                                         *)
(*   Spec       the agent: orchestrator, PTY reader, the two broadcast     *)
(*              channels, the transport loop and its forwarding tasks.     *)
(*   LiveSpec   Spec with the fairness of the orchestrator's own thread.   *)
(*   SpecResize the agent while resize messages arrive.                    *)
(*   SpecRestart the agent across restarts, with the tasks left behind.    *)
(*   SpecEpochs the agent's epochs with input and resize messages.         *)
(*   SpecSession the controller's session from startup to its end.         *)
(*   SpecStatus the agent and the controller joined by the status topic.   *)
(*   SpecInput  the input path from the controller's key loop to the PTY.  *)
(*   SpecKeys   the controller's key loop over the whole keyboard.         *)
(*   SpecRender the controller's event loop task rendering the out topic.  *)
(*   SpecWatch  the controller's resize watcher.                           *)
(***************************************************************************)
EXTENDS Integers, Sequences, FiniteSets, TLC

(***************************************************************************)
(* Bounds of the model.                                                    *)
(***************************************************************************)
\* capacity of the output broadcast channel (the code asks for 1000 frames;
\* the model keeps the ring small so that a lagging receiver is reachable)
OutCap == 1
\* capacity of the status broadcast channel (the code asks for 10 tokens)
StaCap == 1
\* number of frames the PTY reader reads in one epoch
MaxFrames == 3
\* key events the controller handles
MaxKeys == 3
\* key events typed when the whole keyboard is tried
MaxTyped == 1
\* payloads the controller receives on the out topic
MaxOutMsgs == 2
\* times the local terminal is resized
MaxTermChanges == 3
\* the count of consecutive failures saturates here: fails = MaxFails stands
\* for MaxFails failures or more
MaxFails == 3
\* transport errors in a row the controller's event loop task meets
MaxCtlErrs == 3
\* key events of one controller session
MaxSessionKeys == 2

(***************************************************************************)
(* Program constants.                                                      *)
(***************************************************************************)
InitialRows == 24
InitialCols == 80
InitialDelay == 1
MaxDelay == 30
U16Max == 65535
\* size().unwrap_or((80, 24)) in the controller
DefaultCols == 80
DefaultRows == 24
\* sleep(Duration::from_secs(1)) after a transport error in the controller
CtlRetryDelay == 1

Min(a, b) == IF a < b THEN a ELSE b

Last(s) == s[Len(s)]

VARIABLES
  \* ---- agent: Session Orchestrator (main) ----
  mainPc,            \* "create" | "wait" | "settle" | "panicked"
  restarted,         \* history: the current epoch follows an earlier one
  child,             \* "none" | "running" | "exited"
  exit_in_ready,     \* history: the transport was ready and connected when the child exited
  \* ---- agent: PTY reader thread and output channel ----
  reader,            \* "none" | "run" | "done"
  nread,             \* frames read from the PTY in this epoch; frame k is the k-th read
  output_ch,         \* frames accepted by the output broadcast channel in this epoch
  out_next,          \* cursor of the publish task's receiver into output_ch
  publish_task,      \* "none" | "run" | "ended" | "aborted"
  out_published,     \* frames published on the out topic by the current connection
  sub_at,            \* history: nread when the current connection subscribed
  \* ---- agent: status channel ----
  status_ch,         \* tokens accepted by the status broadcast channel in this epoch
  sta_next,          \* cursor of the status task's receiver into status_ch
  status_task,       \* "none" | "run" | "ended" | "aborted"
  status_published,  \* tokens published on the status topic in this epoch
  \* ---- agent: transport loop (mqtt_shell_loop) ----
  mqtt_task,         \* "none" | "connect" | "ready" | "backoff" | "aborted" | "panicked"
  reconnect_delay,   \* seconds
  eventloop,         \* the client's event loop (and its request channel) exists
  conn_up,           \* a ConnAck was received on the current event loop
  fails,             \* history: failed attempts since the last ConnAck (saturating)
  broker,            \* the broker is reachable
  \* ---- agent: PTY ----
  pty_size,          \* <<rows, cols>>
  last_resize,       \* history: <<p>>, p the last resize payload handled in this epoch
  size_before,       \* history: pty_size before that payload was handled
  \* ---- agent: Input Relay and PTY writer thread ----
  input_q,           \* the mpsc queue from the transport loop to the writer
  writer,            \* "none" | "run" | "done"
  pty_written,       \* payloads written to this epoch's PTY, in order
  \* ---- agent: what earlier epochs left running ----
  old_forwarders,    \* a forwarding task spawned in an earlier epoch is still running
  \* ---- the in topic between controller and agent ----
  net_in,            \* payloads the controller's client accepted, not yet delivered
  \* ---- controller: main ----
  ctl_main,          \* "start" | "loop" | "exited" | "failed"
  ctl_error,         \* what made main fail: "none" | "subscribe" | "publish" | "raw_mode" | "event"
  raw_mode,          \* local raw input mode is on
  key_serial,        \* history: key events handled so far
  last_key,          \* history: <<ev>>, ev the last key event handled
  last_sent,         \* history: what the key loop queued for it: <<>> or <<bytes>>
  tx_input,          \* the queue from the key loop to the input publish task
  exit_signal,       \* messages waiting in the tx_exit / rx_exit queue
  \* ---- controller: event loop task ----
  ctl_eventloop,     \* "none" | "run" | "ended"
  out_received,      \* history: payloads received on the out topic
  out_rendered,      \* bytes the out arm wrote to standard output
  ctl_conn,          \* a ConnAck was received and no error since
  ctl_sub_pending,   \* the two subscribe requests wait in the client's request queue
  ctl_subscribed,    \* the broker holds the out and status subscriptions of the connection
  ctl_sleeps,        \* history: the sleeps after the errors met since the last ConnAck
  resize_fresh,      \* history: a resize message was published since the last error
  \* ---- controller: resize watcher ----
  term_size,         \* <<cols, rows>> of the local terminal
  term_changes,      \* history: changes of the local terminal's size so far
  last_size,         \* the watcher's last_size, <<cols, rows>>
  watch_seen,        \* history: <<size>>, what the watcher's last poll observed
  resize_pub         \* resize payloads the controller's client accepted, in order

orchV == <<mainPc, restarted, child, exit_in_ready>>
readV == <<reader, nread>>
outV == <<output_ch, out_next, publish_task, out_published, sub_at>>
staV == <<status_ch, sta_next, status_task, status_published>>
tpV == <<mqtt_task, reconnect_delay, eventloop, conn_up, fails>>
sizeV == <<pty_size, last_resize, size_before>>
inV == <<input_q, writer, pty_written>>
ptyV == <<sizeV, inV>>
oldV == <<old_forwarders>>

agentVars == <<orchV, readV, outV, staV, tpV, broker, ptyV, oldV>>

keyV == <<key_serial, last_key, last_sent, tx_input>>
renderV == <<out_received, out_rendered>>
watchV == <<term_size, term_changes, last_size, watch_seen, resize_pub>>

connV == <<ctl_conn, ctl_sub_pending, ctl_subscribed, ctl_sleeps, resize_fresh>>

ctlVars == <<ctl_main, ctl_error, raw_mode, exit_signal, ctl_eventloop, connV, keyV,
             renderV, watchV>>

\* everything outside the agent process
outsideV == <<broker, net_in, ctlVars>>

vars == <<agentVars, net_in, ctlVars>>

(***************************************************************************)
(* tokio::sync::broadcast, as the agent uses it.  A channel is the         *)
(* sequence of the values it accepted; a receiver is a cursor into it.     *)
(* The ring keeps the newest `cap` values.                                 *)
(***************************************************************************)
\* a channel that keeps a value sent while it has no receiver
BroadcastSendKeeps(ch, rx_cnt, v) == Append(ch, v)

\* Sender::send: with no receiver the value is returned in Err and dropped.
BroadcastSend(ch, rx_cnt, v) == IF rx_cnt = 0 THEN ch ELSE Append(ch, v)

\* Sender::subscribe: the new receiver sees only values sent from now on.
BroadcastSubscribe(ch) == Len(ch) + 1

\* a receiver whose channel keeps every value until it is received
BroadcastRecvUnbounded(ch, next, cap) ==
  IF next > Len(ch)
    THEN [kind |-> "pending", value |-> 0, next |-> next]
    ELSE [kind |-> "ok", value |-> ch[next], next |-> next + 1]

\* Receiver::recv: Err(Lagged) when the value at the cursor was overwritten,
\* pending when nothing is there, otherwise the value at the cursor.
BroadcastRecv(ch, next, cap) ==
  IF Len(ch) - next + 1 > cap
    THEN [kind |-> "lagged", value |-> 0, next |-> Len(ch) - cap + 1]
    ELSE IF next > Len(ch)
      THEN [kind |-> "pending", value |-> 0, next |-> next]
      ELSE [kind |-> "ok", value |-> ch[next], next |-> next + 1]

RxCount(task) == IF task = "run" THEN 1 ELSE 0

\* JoinHandle::abort: a running task is cancelled, a finished one stays finished.
Abort(task) == IF task = "run" THEN "aborted" ELSE task

(***************************************************************************)
(* Resize Message Codec.  A payload on the resize topic is either not a    *)
(* JSON object at all (json = FALSE) or an object whose fields rows and    *)
(* cols are each absent (<<>>) or an integer (<<n>>).                      *)
(***************************************************************************)
FieldVals == {<<>>, <<-1>>, <<0>>, <<1>>, <<2>>, <<U16Max + 1>>}

ResizePayloads ==
  {[json |-> TRUE, rows |-> r, cols |-> c] : r \in FieldVals, c \in FieldVals}
  \cup {[json |-> FALSE, rows |-> <<>>, cols |-> <<>>]}

\* a field deserialises into a u16 when it is present and in 0..65535
IsU16(f) == f # <<>> /\ f[1] >= 0 /\ f[1] <= U16Max

\* serde_json::from_slice::<TerminalResize>: Ok only when both fields are u16
ParseResize(p) ==
  IF p.json /\ IsU16(p.rows) /\ IsU16(p.cols)
    THEN [ok |-> TRUE, rows |-> p.rows[1], cols |-> p.cols[1]]
    ELSE [ok |-> FALSE, rows |-> 0, cols |-> 0]

\* a decoder that hands the two fields over in the order the log line prints them
PtySizeOfSwapped(r) == <<r.cols, r.rows>>

\* PtySize { rows: resize_data.rows, cols: resize_data.cols, .. }
PtySizeOf(r) == <<r.rows, r.cols>>

(***************************************************************************)
(* Agent: Session Orchestrator (main).                                     *)
(***************************************************************************)
\* One pass of main's loop up to child.wait(): fresh channels, PTY, child,
\* reader and writer threads, transport task.  shell_ready is sent while the
\* new status channel has no receiver.  The two forwarding tasks of the epoch
\* that ended were spawned on their own: nothing here ends them.
NewEpoch ==
  /\ mainPc = "create"
  /\ mainPc' = "wait"
  /\ restarted' = (child = "exited")
  /\ child' = "running"
  /\ exit_in_ready' = FALSE
  /\ reader' = "run"
  /\ nread' = 0
  /\ output_ch' = <<>>
  /\ out_next' = 1
  /\ publish_task' = "none"
  /\ out_published' = <<>>
  /\ sub_at' = 0
  /\ status_ch' = BroadcastSend(<<>>, 0, "shell_ready")
  /\ sta_next' = 1
  /\ status_task' = "none"
  /\ status_published' = <<>>
  /\ mqtt_task' = "connect"
  /\ reconnect_delay' = InitialDelay
  /\ eventloop' = FALSE
  /\ conn_up' = FALSE
  /\ fails' = 0
  /\ pty_size' = <<InitialRows, InitialCols>>
  /\ last_resize' = <<>>
  /\ size_before' = <<InitialRows, InitialCols>>
  /\ input_q' = <<>>
  /\ writer' = "run"
  /\ pty_written' = <<>>
  /\ old_forwarders' = (old_forwarders \/ publish_task = "run" \/ status_task = "run")
  /\ UNCHANGED outsideV

\* openpty / spawn_command / try_clone_reader / take_writer fail: expect() panics
NewEpochFail ==
  /\ mainPc = "create"
  /\ mainPc' = "panicked"
  /\ UNCHANGED <<restarted, child, exit_in_ready, readV, outV, staV, tpV, oldV, outsideV, ptyV>>

\* the shell process exits (environment)
ChildExit ==
  /\ child = "running"
  /\ child' = "exited"
  /\ exit_in_ready' = (mqtt_task = "ready" /\ conn_up /\ status_task = "run")
  /\ UNCHANGED <<mainPc, restarted, readV, outV, staV, tpV, oldV, outsideV, ptyV>>

\* an orchestrator that goes on to the settle delay without the abort
MainAbortKeepsTransport ==
  /\ mainPc = "wait"
  /\ child = "exited"
  /\ mainPc' = "settle"
  /\ UNCHANGED <<restarted, child, exit_in_ready, readV, outV, staV, tpV, oldV,
                 outsideV, ptyV>>

\* child.wait() returns; mqtt_task.abort() drops the transport loop's future
\* with its locals (client, event loop, reconnect_delay, the PTY pair).  The
\* two forwarding tasks were spawned on their own and are not aborted with it.
MainAbort ==
  /\ mainPc = "wait"
  /\ child = "exited"
  /\ mainPc' = "settle"
  /\ mqtt_task' = IF mqtt_task = "panicked" THEN mqtt_task ELSE "aborted"
  /\ eventloop' = FALSE
  /\ conn_up' = FALSE
  /\ reconnect_delay' = InitialDelay
  /\ fails' = 0
  /\ UNCHANGED <<restarted, child, exit_in_ready, readV, outV, staV, oldV, outsideV, ptyV>>

\* an orchestrator that leaves its loop after the settle delay
MainSettleLeaves ==
  /\ mainPc = "settle"
  /\ mainPc' = "left"
  /\ UNCHANGED <<restarted, child, exit_in_ready, readV, outV, staV, tpV, oldV, outsideV, ptyV>>

\* the 2-second settle delay elapses and the loop body ends
MainSettle ==
  /\ mainPc = "settle"
  /\ mainPc' = "create"
  /\ UNCHANGED <<restarted, child, exit_in_ready, readV, outV, staV, tpV, oldV, outsideV, ptyV>>

(***************************************************************************)
(* Agent: PTY reader thread.                                               *)
(***************************************************************************)
\* read returns Ok(n), n > 0: the frame goes to the output channel
ShellOutput ==
  /\ reader = "run"
  /\ nread < MaxFrames
  /\ nread' = nread + 1
  /\ output_ch' = BroadcastSend(output_ch, RxCount(publish_task), nread + 1)
  /\ UNCHANGED <<orchV, reader, out_next, publish_task, out_published, sub_at, staV,
                 tpV, oldV, outsideV, ptyV>>

\* the reader's last act: one status token, then the thread ends
ReaderStop(token) ==
  /\ reader = "run"
  /\ child = "exited"
  /\ reader' = "done"
  /\ status_ch' = BroadcastSend(status_ch, RxCount(status_task), token)
  /\ UNCHANGED <<orchV, nread, outV, sta_next, status_task, status_published, tpV,
                 oldV, outsideV, ptyV>>

\* read returns Ok(0)
ReaderEof == ReaderStop("shell_restarting")

\* a reader that reports a read error with the token the controller ends on
ReaderErrSendsExited == ReaderStop("shell_exited")

\* read returns Err
ReaderErr == ReaderStop("shell_error_restarting")

(***************************************************************************)
(* Agent: transport loop (mqtt_shell_loop).                                *)
(* AsyncClient::new opens no connection and subscribe only queues a        *)
(* request for the event loop: the connection is made by eventloop.poll(), *)
(* which is where the ConnAck of line 282 arrives, after both subscribes.  *)
(***************************************************************************)
CountFail(n) == Min(n + 1, MaxFails)

\* a doubling without the cap
NextDelayUncapped(d) == d * 2

\* min(reconnect_delay * 2, 30)
NextDelay(d) == Min(d * 2, MaxDelay)

\* a subscribe call returns Err: sleep(reconnect_delay) starts
SubscribeFail ==
  /\ mqtt_task = "connect"
  /\ mqtt_task' = "backoff"
  /\ eventloop' = TRUE
  /\ fails' = CountFail(fails)
  /\ UNCHANGED <<orchV, readV, outV, staV, reconnect_delay, conn_up, oldV, outsideV, ptyV>>

\* subscribe(topic_in) fails (lines 181-186)
SubscribeInFail == SubscribeFail

\* subscribe(topic_resize) fails (lines 188-193)
SubscribeResizeFail == SubscribeFail

\* the delay after both subscribes returned Ok
DelayOnSubscribed(d) == InitialDelay

\* both subscribes return Ok: the delay is reset, the two receivers are
\* created and the two forwarding tasks spawned (lines 195-251)
Ready ==
  /\ mqtt_task = "connect"
  /\ mqtt_task' = "ready"
  /\ eventloop' = TRUE
  /\ reconnect_delay' = DelayOnSubscribed(reconnect_delay)
  /\ out_next' = BroadcastSubscribe(output_ch)
  /\ sta_next' = BroadcastSubscribe(status_ch)
  /\ publish_task' = "run"
  /\ status_task' = "run"
  /\ out_published' = <<>>
  /\ sub_at' = nread
  /\ UNCHANGED <<orchV, readV, output_ch, status_ch, status_published, conn_up, fails,
                 oldV, outsideV, ptyV>>

\* poll returns Incoming(ConnAck): the connection to the broker is up
PollConnAck ==
  /\ mqtt_task = "ready"
  /\ broker
  /\ ~conn_up
  /\ conn_up' = TRUE
  /\ fails' = 0
  /\ UNCHANGED <<orchV, readV, outV, staV, mqtt_task, reconnect_delay, eventloop,
                 oldV, outsideV, ptyV>>

\* poll returns Err (connection refused, connection lost, ping timeout):
\* the inner loop breaks, both forwarding tasks are aborted, sleep starts
PollErr ==
  /\ mqtt_task = "ready"
  /\ mqtt_task' = "backoff"
  /\ publish_task' = Abort(publish_task)
  /\ status_task' = Abort(status_task)
  /\ conn_up' = FALSE
  /\ fails' = CountFail(fails)
  /\ UNCHANGED <<orchV, readV, output_ch, out_next, out_published, sub_at, status_ch,
                 sta_next, status_published, reconnect_delay, eventloop, oldV, outsideV, ptyV>>

\* a reconnect that also opens the PTY anew
BackoffDoneReopensPty ==
  /\ mqtt_task = "backoff"
  /\ mqtt_task' = "connect"
  /\ reconnect_delay' = NextDelay(reconnect_delay)
  /\ eventloop' = FALSE
  /\ pty_size' = <<InitialRows, InitialCols>>
  /\ UNCHANGED <<orchV, readV, outV, staV, conn_up, fails, oldV, outsideV,
                 last_resize, size_before, inV>>

\* sleep(reconnect_delay) returns, the delay is doubled, the iteration ends
\* and drops its client and event loop
BackoffDone ==
  /\ mqtt_task = "backoff"
  /\ mqtt_task' = "connect"
  /\ reconnect_delay' = NextDelay(reconnect_delay)
  /\ eventloop' = FALSE
  /\ UNCHANGED <<orchV, readV, outV, staV, conn_up, fails, oldV, outsideV, ptyV>>

\* the broker becomes reachable or unreachable (environment)
BrokerChange ==
  /\ broker' = ~broker
  /\ UNCHANGED <<orchV, readV, outV, staV, tpV, ptyV, oldV, net_in, ctlVars>>

\* the resize arm of the Publish handler (lines 260-280), resize succeeding
ApplyResize(p, size) ==
  IF ParseResize(p).ok THEN PtySizeOf(ParseResize(p)) ELSE size

PollPublishResize(p) ==
  /\ mqtt_task = "ready"
  /\ conn_up
  /\ pty_size' = ApplyResize(p, pty_size)
  /\ last_resize' = <<p>>
  /\ size_before' = pty_size
  /\ UNCHANGED <<orchV, readV, outV, staV, tpV, oldV, outsideV, inV>>

\* master.resize returns Err: expect() panics inside the transport task,
\* which ends the task alone and drops its future
PollPublishResizePanic(p) ==
  /\ mqtt_task = "ready"
  /\ conn_up
  /\ ParseResize(p).ok
  /\ mqtt_task' = "panicked"
  /\ eventloop' = FALSE
  /\ conn_up' = FALSE
  /\ UNCHANGED <<orchV, readV, outV, staV, reconnect_delay, fails, oldV, outsideV, ptyV>>

(***************************************************************************)
(* Agent: the two forwarding tasks of a connection.                        *)
(***************************************************************************)
\* a forwarding loop that carries on after Err(Lagged) instead of ending
ForwardTurnSkipsLag(r, alive) ==
  IF r.kind = "ok" /\ alive
    THEN [task |-> "run", pub |-> <<r.value>>]
    ELSE IF r.kind = "lagged" /\ alive
      THEN [task |-> "run", pub |-> <<>>]
      ELSE [task |-> "ended", pub |-> <<>>]

\* One turn of `while let Ok(v) = rx.recv().await { publish(v).await? }`:
\* r is what recv returned, alive whether the client's request channel is
\* open.  Gives the task's next state and the values it published.
ForwardTurn(r, alive) ==
  IF r.kind = "ok" /\ alive
    THEN [task |-> "run", pub |-> <<r.value>>]
    ELSE [task |-> "ended", pub |-> <<>>]

\* publish_task (lines 208-224)
PublishForward ==
  /\ publish_task = "run"
  /\ LET r == BroadcastRecv(output_ch, out_next, OutCap)
         t == ForwardTurn(r, eventloop)
     IN /\ r.kind # "pending"
        /\ out_next' = r.next
        /\ publish_task' = t.task
        /\ out_published' = out_published \o t.pub
  /\ UNCHANGED <<orchV, readV, output_ch, sub_at, staV, tpV, oldV, outsideV, ptyV>>

\* status_task (lines 226-249)
StatusForward ==
  /\ status_task = "run"
  /\ LET r == BroadcastRecv(status_ch, sta_next, StaCap)
         t == ForwardTurn(r, eventloop)
     IN /\ r.kind # "pending"
        /\ sta_next' = r.next
        /\ status_task' = t.task
        /\ status_published' = status_published \o t.pub
  /\ UNCHANGED <<orchV, readV, outV, status_ch, tpV, oldV, outsideV, ptyV>>

(***************************************************************************)
(* Agent: the forwarding tasks earlier epochs left behind.  Their client's *)
(* event loop was dropped by mqtt_task.abort(), so every publish of theirs *)
(* returns Err; their channels close when the reader thread of their       *)
(* epoch, the last holder of a sender, has ended.                          *)
(***************************************************************************)
\* recv returns a value whose publish fails, or Err(Closed): the last of the
\* old forwarding tasks ends.  Until then they wait in recv, for as long as
\* their epoch's reader thread sees neither data nor end-of-stream.
OldForwardersEnd ==
  /\ old_forwarders
  /\ old_forwarders' =
       (ForwardTurn([kind |-> "ok", value |-> 0, next |-> 0], FALSE).task = "run")
  /\ UNCHANGED <<orchV, readV, outV, staV, tpV, ptyV, outsideV>>

(***************************************************************************)
(* Agent: Input Relay and PTY writer thread.                               *)
(***************************************************************************)
\* a writer that takes the newest queued payload first
DequeueNewest(q) == [item |-> q[Len(q)], rest |-> SubSeq(q, 1, Len(q) - 1)]

\* mpsc::Receiver::recv: the oldest queued payload
Dequeue(q) == [item |-> Head(q), rest |-> Tail(q)]

\* the in arm of the Publish handler (lines 256-259): input_tx.send(payload);
\* main holds the receiver for the whole epoch, so the send succeeds
PollPublishIn(item) ==
  /\ mqtt_task = "ready"
  /\ conn_up
  /\ input_q' = Append(input_q, item)
  /\ UNCHANGED <<orchV, readV, outV, staV, tpV, oldV, broker, sizeV, writer, pty_written>>

\* the broker delivers the next payload of the in topic to the agent
DeliverIn ==
  /\ net_in # <<>>
  /\ PollPublishIn(Head(net_in))
  /\ net_in' = Tail(net_in)
  /\ UNCHANGED ctlVars

\* at most once: a payload of the in topic is lost on the way
LoseIn ==
  /\ \E i \in 1..Len(net_in) :
       net_in' = SubSeq(net_in, 1, i - 1) \o SubSeq(net_in, i + 1, Len(net_in))
  /\ UNCHANGED <<agentVars, ctlVars>>

\* the writer thread takes a payload and write_all + flush succeed
WriterStep ==
  /\ writer = "run"
  /\ input_q # <<>>
  /\ input_q' = Dequeue(input_q).rest
  /\ pty_written' = Append(pty_written, Dequeue(input_q).item)
  /\ UNCHANGED <<orchV, readV, outV, staV, tpV, oldV, outsideV, sizeV, writer>>

\* write_all returns Err (the shell is gone): the writer thread ends
WriterFail ==
  /\ writer = "run"
  /\ input_q # <<>>
  /\ child = "exited"
  /\ input_q' = Dequeue(input_q).rest
  /\ writer' = "done"
  /\ UNCHANGED <<orchV, readV, outV, staV, tpV, oldV, outsideV, sizeV, pty_written>>

(***************************************************************************)
(* UTF-8.                                                                  *)
(***************************************************************************)
\* char::encode_utf8
EncodeUtf8(cp) ==
  IF cp < 128 THEN <<cp>>
  ELSE IF cp < 2048 THEN <<192 + (cp \div 64), 128 + (cp % 64)>>
  ELSE IF cp < 65536
    THEN <<224 + (cp \div 4096), 128 + ((cp \div 64) % 64), 128 + (cp % 64)>>
    ELSE <<240 + (cp \div 262144), 128 + ((cp \div 4096) % 64),
           128 + ((cp \div 64) % 64), 128 + (cp % 64)>>

\* U+FFFD REPLACEMENT CHARACTER in UTF-8
Replacement == <<239, 191, 189>>

IsCont(b) == b >= 128 /\ b <= 191

\* the range the second byte of a sequence led by b must lie in
SecondLo(b) == IF b = 224 THEN 160 ELSE IF b = 240 THEN 144 ELSE 128
SecondHi(b) == IF b = 237 THEN 159 ELSE IF b = 244 THEN 143 ELSE 191

\* number of bytes of the sequence a lead byte announces, 0 for no lead byte
SeqLen(b) ==
  IF b < 128 THEN 1
  ELSE IF b >= 194 /\ b <= 223 THEN 2
  ELSE IF b >= 224 /\ b <= 239 THEN 3
  ELSE IF b >= 240 /\ b <= 244 THEN 4
  ELSE 0

\* length of the longest prefix of s that is a valid start of the sequence
\* its first byte announces (the "maximal subpart" one U+FFFD replaces)
ValidPrefix(s) ==
  LET n == SeqLen(s[1])
      ok2 == Len(s) >= 2 /\ s[2] >= SecondLo(s[1]) /\ s[2] <= SecondHi(s[1])
      ok3 == Len(s) >= 3 /\ IsCont(s[3])
      ok4 == Len(s) >= 4 /\ IsCont(s[4])
  IN IF n <= 1 THEN 1
     ELSE IF ~ok2 THEN 1
     ELSE IF n = 2 THEN 2
     ELSE IF ~ok3 THEN 2
     ELSE IF n = 3 THEN 3
     ELSE IF ~ok4 THEN 3
     ELSE 4

RECURSIVE Utf8Lossy(_)
\* String::from_utf8_lossy, then the bytes of the resulting String: valid
\* sequences are kept, every maximal invalid part becomes one U+FFFD
Utf8Lossy(s) ==
  IF s = <<>> THEN <<>>
  ELSE LET n == SeqLen(s[1])
           k == ValidPrefix(s)
       IN IF n >= 1 /\ k = n
            THEN SubSeq(s, 1, n) \o Utf8Lossy(SubSeq(s, n + 1, Len(s)))
            ELSE Replacement \o Utf8Lossy(SubSeq(s, k + 1, Len(s)))

(***************************************************************************)
(* Controller: startup and Key Encoder.                                    *)
(* A key event is [kind, code, arg, mods]: kind "key" or "other" (mouse,   *)
(* resize, paste, focus), code the KeyCode variant, arg the code point of  *)
(* Char(c) or the n of F(n), mods the set of KeyModifiers.                 *)
(***************************************************************************)
Esc == 27

\* a table that numbers F5..F12 without the two gaps of the VT220 codes
FnSeqNoGaps(n) ==
  IF n >= 1 /\ n <= 4 THEN << <<Esc, 79, 79 + n>> >>
  ELSE IF n >= 5 /\ n <= 12
    THEN << <<Esc, 91, 48 + ((10 + n) \div 10), 48 + ((10 + n) % 10), 126>> >>
    ELSE <<>>

\* the F(n) arm (lines 217-236): <<bytes>>, or <<>> for `continue`
FnSeq(n) ==
  CASE n = 1 -> << <<Esc, 79, 80>> >>
    [] n = 2 -> << <<Esc, 79, 81>> >>
    [] n = 3 -> << <<Esc, 79, 82>> >>
    [] n = 4 -> << <<Esc, 79, 83>> >>
    [] n = 5 -> << <<Esc, 91, 49, 53, 126>> >>
    [] n = 6 -> << <<Esc, 91, 49, 55, 126>> >>
    [] n = 7 -> << <<Esc, 91, 49, 56, 126>> >>
    [] n = 8 -> << <<Esc, 91, 49, 57, 126>> >>
    [] n = 9 -> << <<Esc, 91, 50, 48, 126>> >>
    [] n = 10 -> << <<Esc, 91, 50, 49, 126>> >>
    [] n = 11 -> << <<Esc, 91, 50, 51, 126>> >>
    [] n = 12 -> << <<Esc, 91, 50, 52, 126>> >>
    [] OTHER -> <<>>

IsChar(ev, cp, mods) == ev.code = "Char" /\ ev.arg = cp /\ ev.mods = mods

\* the match of the key loop (lines 148-238), arm by arm in its order:
\* exit is the `break` of Ctrl+Q, send the payload queued on tx_input
EncodeKey(ev) ==
  IF ev.kind # "key" THEN [exit |-> FALSE, send |-> <<>>]
  ELSE IF IsChar(ev, 113, {"CONTROL"}) THEN [exit |-> TRUE, send |-> <<>>]
  ELSE IF IsChar(ev, 99, {"CONTROL"}) THEN [exit |-> FALSE, send |-> << <<3>> >>]
  ELSE IF IsChar(ev, 122, {"CONTROL"}) THEN [exit |-> FALSE, send |-> << <<26>> >>]
  ELSE IF ev.code = "Char" /\ ev.mods = {}
    THEN [exit |-> FALSE, send |-> <<EncodeUtf8(ev.arg)>>]
  ELSE IF ev.code = "Char" /\ ev.mods = {"SHIFT"}
    THEN [exit |-> FALSE, send |-> <<EncodeUtf8(ev.arg)>>]
  ELSE IF ev.code = "Enter" THEN [exit |-> FALSE, send |-> << <<13>> >>]
  ELSE IF ev.code = "Backspace" THEN [exit |-> FALSE, send |-> << <<127>> >>]
  ELSE IF ev.code = "Tab" THEN [exit |-> FALSE, send |-> << <<9>> >>]
  ELSE IF ev.code = "Up" THEN [exit |-> FALSE, send |-> << <<Esc, 91, 65>> >>]
  ELSE IF ev.code = "Down" THEN [exit |-> FALSE, send |-> << <<Esc, 91, 66>> >>]
  ELSE IF ev.code = "Right" THEN [exit |-> FALSE, send |-> << <<Esc, 91, 67>> >>]
  ELSE IF ev.code = "Left" THEN [exit |-> FALSE, send |-> << <<Esc, 91, 68>> >>]
  ELSE IF ev.code = "Home" THEN [exit |-> FALSE, send |-> << <<Esc, 91, 72>> >>]
  ELSE IF ev.code = "End" THEN [exit |-> FALSE, send |-> << <<Esc, 91, 70>> >>]
  ELSE IF ev.code = "PageUp" THEN [exit |-> FALSE, send |-> << <<Esc, 91, 53, 126>> >>]
  ELSE IF ev.code = "PageDown" THEN [exit |-> FALSE, send |-> << <<Esc, 91, 54, 126>> >>]
  ELSE IF ev.code = "Delete" THEN [exit |-> FALSE, send |-> << <<Esc, 91, 51, 126>> >>]
  ELSE IF ev.code = "Insert" THEN [exit |-> FALSE, send |-> << <<Esc, 91, 50, 126>> >>]
  ELSE IF ev.code = "F" THEN [exit |-> FALSE, send |-> FnSeq(ev.arg)]
  ELSE [exit |-> FALSE, send |-> <<>>]

\* the code points the model types: q c z a A e-acute euro-sign grinning-face
CharArgs == {113, 99, 122, 97, 65, 233, 8364, 128512}

NamedCodes == {"Enter", "Backspace", "Tab", "Up", "Down", "Right", "Left", "Home",
               "End", "PageUp", "PageDown", "Delete", "Insert", "Esc", "BackTab"}

ModSets == {{}, {"CONTROL"}, {"SHIFT"}, {"ALT"}, {"CONTROL", "SHIFT"}}

\* number of function keys the model presses: F1..F13
MaxFn == 13

KeyEvents ==
  {[kind |-> "key", code |-> "Char", arg |-> a, mods |-> m] : a \in CharArgs, m \in ModSets}
  \cup {[kind |-> "key", code |-> c, arg |-> 0, mods |-> m] : c \in NamedCodes, m \in ModSets}
  \cup {[kind |-> "key", code |-> "F", arg |-> n, mods |-> m] : n \in 1..MaxFn, m \in ModSets}
  \cup {[kind |-> "other", code |-> "Resize", arg |-> 0, mods |-> {}]}

\* a serialiser that writes the two numbers under each other's name
ResizeJsonSwapped(rows, cols) == [json |-> TRUE, rows |-> <<cols>>, cols |-> <<rows>>]

\* serde_json::to_string(&TerminalResize { rows, cols })
ResizeJson(rows, cols) == [json |-> TRUE, rows |-> <<rows>>, cols |-> <<cols>>]

\* main up to the key loop (lines 44-138): subscribe, read the terminal
\* size (sz = <<>> when size() fails), publish the initial resize message,
\* enter raw mode, spawn the three tasks
CtlStart(sz) ==
  /\ ctl_main = "start"
  /\ LET cr == IF sz = <<>> THEN <<DefaultCols, DefaultRows>> ELSE sz[1]
     IN /\ resize_pub' = Append(resize_pub, ResizeJson(cr[2], cr[1]))
        /\ last_size' = cr
  /\ ctl_main' = "loop"
  /\ raw_mode' = TRUE
  /\ ctl_eventloop' = "run"
  /\ ctl_sub_pending' = TRUE
  /\ resize_fresh' = TRUE
  /\ UNCHANGED <<agentVars, net_in, ctl_error, exit_signal, ctl_conn, ctl_subscribed,
                 ctl_sleeps, keyV, renderV, term_size, term_changes, watch_seen>>

\* main ends before the key loop: a subscribe returns Err and unwrap()
\* panics (lines 48-49), the initial publish returns Err and `?` returns it
\* (line 56), or enable_raw_mode fails and `?` returns it (line 62)
StartErrors == {"subscribe", "publish", "raw_mode"}

CtlStartFail ==
  /\ ctl_main = "start"
  /\ ctl_main' = "failed"
  /\ ctl_error' \in StartErrors
  /\ UNCHANGED <<agentVars, net_in, raw_mode, exit_signal, ctl_eventloop, connV, keyV,
                 renderV, watchV>>

\* one key event read in the key loop
HandleKey(ev) ==
  /\ ctl_main = "loop"
  /\ key_serial < MaxKeys
  /\ key_serial' = key_serial + 1
  /\ last_key' = <<ev>>
  /\ last_sent' = EncodeKey(ev).send
  /\ tx_input' = tx_input \o
       [i \in 1..Len(EncodeKey(ev).send) |->
          [id |-> key_serial + 1, bytes |-> EncodeKey(ev).send[i]]]
  /\ ctl_main' = IF EncodeKey(ev).exit THEN "exited" ELSE ctl_main
  /\ raw_mode' = IF EncodeKey(ev).exit THEN FALSE ELSE raw_mode
  /\ UNCHANGED <<agentVars, net_in, ctl_error, exit_signal, ctl_eventloop, connV,
                 renderV, watchV>>

\* event::poll or event::read returns Err (lines 147-148): `?` returns it
\* from main, past disable_raw_mode
KeyReadFail ==
  /\ ctl_main = "loop"
  /\ ctl_main' = "failed"
  /\ ctl_error' = "event"
  /\ UNCHANGED <<agentVars, net_in, raw_mode, exit_signal, ctl_eventloop, connV, keyV,
                 renderV, watchV>>

\* the key loop finds the exit signal (lines 142-145) and main returns
CtlExitOnSignal ==
  /\ ctl_main = "loop"
  /\ exit_signal > 0
  /\ ctl_main' = "exited"
  /\ raw_mode' = FALSE
  /\ exit_signal' = exit_signal - 1
  /\ UNCHANGED <<agentVars, net_in, ctl_error, ctl_eventloop, connV, keyV, renderV,
                 watchV>>

\* AsyncClient::publish: Ok while the event loop owns the request channel's
\* receiving end, Err once the event loop task has ended and dropped it
ClientAccepts == ctl_eventloop = "run"

\* the input publish task (lines 68-74): an Err is logged and the payload dropped
InputPublish ==
  /\ ctl_main = "loop"
  /\ tx_input # <<>>
  /\ tx_input' = Tail(tx_input)
  /\ net_in' = IF ClientAccepts THEN Append(net_in, Head(tx_input)) ELSE net_in
  /\ UNCHANGED <<agentVars, ctl_main, ctl_error, raw_mode, exit_signal, ctl_eventloop,
                 connV, key_serial, last_key, last_sent, renderV, watchV>>

(***************************************************************************)
(* Controller: event loop task.                                            *)
(***************************************************************************)
\* the out arm (lines 82-85): print!("{}", String::from_utf8_lossy(payload))
RenderOut(payload) == Utf8Lossy(payload)

\* poll returns Incoming(ConnAck) (line 105): nothing is done; the requests
\* queued so far (the subscribes of lines 48-49) go out on this connection
CtlPollConnAck ==
  /\ ctl_main = "loop"
  /\ ctl_eventloop = "run"
  /\ broker
  /\ ~ctl_conn
  /\ ctl_conn' = TRUE
  /\ ctl_subscribed' = ctl_sub_pending
  /\ ctl_sub_pending' = FALSE
  /\ ctl_sleeps' = <<>>
  /\ UNCHANGED <<agentVars, net_in, ctl_main, ctl_error, raw_mode, exit_signal,
                 ctl_eventloop, resize_fresh, keyV, renderV, watchV>>

\* poll returns Err (lines 107-110): sleep one second, then poll again, which
\* reconnects with a clean session; nothing is subscribed or published again
CtlPollErr ==
  /\ ctl_main = "loop"
  /\ ctl_eventloop = "run"
  /\ Len(ctl_sleeps) < MaxCtlErrs
  /\ ctl_conn' = FALSE
  /\ ctl_subscribed' = FALSE
  /\ resize_fresh' = FALSE
  /\ ctl_sleeps' = Append(ctl_sleeps, CtlRetryDelay)
  /\ UNCHANGED <<agentVars, net_in, ctl_main, ctl_error, raw_mode, exit_signal,
                 ctl_eventloop, ctl_sub_pending, keyV, renderV, watchV>>

CtlPollOut(payload) ==
  /\ ctl_main = "loop"
  /\ ctl_eventloop = "run"
  /\ ctl_conn /\ ctl_subscribed
  /\ Len(out_received) < MaxOutMsgs
  /\ out_received' = Append(out_received, payload)
  /\ out_rendered' = out_rendered \o RenderOut(payload)
  /\ UNCHANGED <<agentVars, net_in, ctl_main, ctl_error, raw_mode, exit_signal,
                 ctl_eventloop, connV, keyV, watchV>>

\* the status arm (lines 86-99): only "shell_exited" sends the exit signal
\* and breaks out of the task, which drops the event loop
CtlPollStatus(token) ==
  /\ ctl_main = "loop"
  /\ ctl_eventloop = "run"
  /\ ctl_conn /\ ctl_subscribed
  /\ exit_signal' = IF token = "shell_exited" THEN exit_signal + 1 ELSE exit_signal
  /\ ctl_eventloop' = IF token = "shell_exited" THEN "ended" ELSE ctl_eventloop
  /\ ctl_conn' = IF token = "shell_exited" THEN FALSE ELSE ctl_conn
  /\ ctl_subscribed' = IF token = "shell_exited" THEN FALSE ELSE ctl_subscribed
  /\ UNCHANGED <<agentVars, net_in, ctl_main, ctl_error, raw_mode, ctl_sub_pending,
                 ctl_sleeps, resize_fresh, keyV, renderV, watchV>>

(***************************************************************************)
(* Controller: resize watcher.                                             *)
(***************************************************************************)
TermSizes == {<<80, 24>>, <<120, 40>>, <<120, 24>>}

\* the user resizes the local terminal (environment)
TermResize(sz) ==
  /\ term_changes < MaxTermChanges
  /\ sz # term_size
  /\ term_size' = sz
  /\ term_changes' = term_changes + 1
  /\ UNCHANGED <<agentVars, net_in, ctl_main, ctl_error, raw_mode, exit_signal,
                 ctl_eventloop, connV, keyV, renderV, last_size, watch_seen, resize_pub>>

\* a watcher that looks at the columns only
SizeChangedCols(new, last) == new[1] # last[1]

\* (new_cols, new_rows) != last_size
SizeChanged(new, last) == new # last

\* one turn of the watcher's loop (lines 118-137) with size() returning Ok:
\* last_size is set first, the publish result is ignored
WatcherPoll ==
  /\ ctl_main = "loop"
  /\ watch_seen' = <<term_size>>
  /\ IF SizeChanged(term_size, last_size)
       THEN /\ last_size' = term_size
            /\ resize_pub' = IF ClientAccepts
                               THEN Append(resize_pub, ResizeJson(term_size[2], term_size[1]))
                               ELSE resize_pub
            /\ resize_fresh' = (ClientAccepts \/ resize_fresh)
       ELSE UNCHANGED <<last_size, resize_pub, resize_fresh>>
  /\ UNCHANGED <<agentVars, net_in, ctl_main, ctl_error, raw_mode, exit_signal,
                 ctl_eventloop, ctl_conn, ctl_sub_pending, ctl_subscribed, ctl_sleeps,
                 keyV, renderV, term_size, term_changes>>

(***************************************************************************)
(* Specifications of the agent.                                            *)
(***************************************************************************)
Init ==
  /\ mainPc = "create"
  /\ restarted = FALSE
  /\ child = "none"
  /\ exit_in_ready = FALSE
  /\ reader = "none"
  /\ nread = 0
  /\ output_ch = <<>>
  /\ out_next = 1
  /\ publish_task = "none"
  /\ out_published = <<>>
  /\ sub_at = 0
  /\ status_ch = <<>>
  /\ sta_next = 1
  /\ status_task = "none"
  /\ status_published = <<>>
  /\ mqtt_task = "none"
  /\ reconnect_delay = InitialDelay
  /\ eventloop = FALSE
  /\ conn_up = FALSE
  /\ fails = 0
  /\ broker \in BOOLEAN
  /\ pty_size = <<InitialRows, InitialCols>>
  /\ last_resize = <<>>
  /\ size_before = <<InitialRows, InitialCols>>
  /\ input_q = <<>>
  /\ writer = "none"
  /\ pty_written = <<>>
  /\ old_forwarders = FALSE
  /\ net_in = <<>>
  /\ ctl_main = "start"
  /\ ctl_error = "none"
  /\ ctl_conn = FALSE
  /\ ctl_sub_pending = FALSE
  /\ ctl_subscribed = FALSE
  /\ ctl_sleeps = <<>>
  /\ resize_fresh = FALSE
  /\ raw_mode = FALSE
  /\ key_serial = 0
  /\ last_key = <<>>
  /\ last_sent = <<>>
  /\ tx_input = <<>>
  /\ exit_signal = 0
  /\ ctl_eventloop = "none"
  /\ out_received = <<>>
  /\ out_rendered = <<>>
  /\ term_size = <<DefaultCols, DefaultRows>>
  /\ term_changes = 0
  /\ last_size = <<DefaultCols, DefaultRows>>
  /\ watch_seen = <<>>
  /\ resize_pub = <<>>

Next ==
  \/ NewEpoch
  \/ NewEpochFail
  \/ ChildExit
  \/ MainAbort
  \/ MainSettle
  \/ ShellOutput
  \/ ReaderEof
  \/ ReaderErr
  \/ SubscribeInFail
  \/ SubscribeResizeFail
  \/ Ready
  \/ PollConnAck
  \/ PollErr
  \/ BackoffDone
  \/ BrokerChange
  \/ PublishForward
  \/ StatusForward

Spec == Init /\ [][Next]_vars

\* the orchestrator is one sequential thread: each of its steps is taken
\* once it can be
LiveSpec ==
  /\ Spec
  /\ WF_vars(MainAbort)
  /\ WF_vars(MainSettle)
  /\ WF_vars(NewEpoch \/ NewEpochFail)

\* the agent while resize messages arrive from a reachable broker
InitResize == Init /\ broker

NextResize ==
  \/ NewEpoch
  \/ ChildExit
  \/ MainAbort
  \/ MainSettle
  \/ ReaderEof
  \/ Ready
  \/ PollConnAck
  \/ PollErr
  \/ BackoffDone
  \/ StatusForward
  \/ \E p \in ResizePayloads : PollPublishResize(p)
  \/ \E p \in ResizePayloads : PollPublishResizePanic(p)

SpecResize == InitResize /\ [][NextResize]_vars

\* the agent across shell restarts, with what each epoch leaves behind
NextRestart ==
  \/ NewEpoch
  \/ ChildExit
  \/ MainAbort
  \/ MainSettle
  \/ ReaderEof
  \/ Ready
  \/ PollConnAck
  \/ PollErr
  \/ BackoffDone
  \/ StatusForward
  \/ OldForwardersEnd

SpecRestart == InitResize /\ [][NextRestart]_vars

\* the payloads the in topic carries while the epochs are watched
EpochInputs == {[id |-> 1, bytes |-> <<97>>], [id |-> 2, bytes |-> <<13>>]}

\* the resize payloads the resize topic carries meanwhile
EpochResizes ==
  {[json |-> TRUE, rows |-> <<2>>, cols |-> <<1>>],
   [json |-> TRUE, rows |-> <<>>, cols |-> <<1>>]}

\* the agent's epochs with input and resize messages arriving
NextEpochs ==
  \/ NewEpoch
  \/ ChildExit
  \/ MainAbort
  \/ MainSettle
  \/ Ready
  \/ PollConnAck
  \/ PollErr
  \/ BackoffDone
  \/ \E item \in EpochInputs :
       /\ Len(input_q) + Len(pty_written) < MaxKeys
       /\ PollPublishIn(item)
       /\ UNCHANGED <<net_in, ctlVars>>
  \/ WriterStep
  \/ WriterFail
  \/ \E p \in EpochResizes : PollPublishResize(p)
  \/ \E p \in EpochResizes : PollPublishResizePanic(p)

SpecEpochs == InitResize /\ [][NextEpochs]_vars

(***************************************************************************)
(* Claims.                                                                 *)
(***************************************************************************)
Count(s, v) == Cardinality({i \in 1..Len(s) : s[i] = v})

\* C1: the k-th consecutive connection failure (no connection established
\* in between) is followed by a retry delay of min(2^(k-1), 30) seconds:
\* 1, 2, 4, 8, 16, 30, 30, ... (for every k the failure count can tell)
C1_BackoffSequence ==
  (mqtt_task = "backoff" /\ fails < MaxFails)
    => reconnect_delay = Min(2 ^ (fails - 1), MaxDelay)

C3_ExactlyOneRestarting ==
  ( /\ exit_in_ready
    /\ mainPc \in {"settle", "create"}
    /\ reader = "done"
    /\ status_task # "run"
    /\ Count(status_ch, "shell_restarting") = 1 )
  => Count(status_published, "shell_restarting") = 1

\* C4: every exit of the shell is eventually followed by a complete new epoch
\* (new PTY at its initial size, new channels, new Input Relay and writer,
\* new transport loop), unless PTY or shell creation fails.
C4_AlwaysRestarts ==
  (child = "exited")
    ~> ( \/ mainPc = "panicked"
         \/ ( /\ mainPc = "wait"
              /\ child = "running"
              /\ reader = "run"
              /\ writer = "run"
              /\ mqtt_task = "connect"
              /\ output_ch = <<>>
              /\ status_ch = <<>>
              /\ input_q = <<>>
              /\ pty_size = <<InitialRows, InitialCols>> ) )

\* C4 witness: an epoch that was started after an earlier epoch's shell exited
C4_Witness == restarted /\ mainPc = "wait" /\ child = "running"

\* a resize payload the claim wants discarded: unparseable, a field missing,
\* or a field zero or negative
Rejectable(p) ==
  \/ ~p.json
  \/ p.rows = <<>>
  \/ p.cols = <<>>
  \/ p.rows[1] <= 0
  \/ p.cols[1] <= 0

\* a resize payload with positive u16 rows and cols
ValidPositive(p) ==
  /\ p.json
  /\ p.rows # <<>> /\ p.rows[1] >= 1 /\ p.rows[1] <= U16Max
  /\ p.cols # <<>> /\ p.cols[1] >= 1 /\ p.cols[1] <= U16Max

\* C5: handling a resize payload that is unparseable or has a missing or
\* non-positive field leaves the PTY's dimensions unchanged and sends no
\* status token.
C5_BadResizeIgnored ==
  [][\A p \in ResizePayloads :
       (Rejectable(p) /\ PollPublishResize(p))
         => (pty_size' = pty_size /\ staV' = staV)]_vars

\* C6: after resize messages with positive rows and cols were applied, the
\* PTY's size is the (rows, cols) of the last one.
C6_SizeIsLastResize ==
  (last_resize # <<>> /\ ValidPositive(last_resize[1]))
    => pty_size = <<last_resize[1].rows[1], last_resize[1].cols[1]>>

\* C6 witness: a second valid resize repeated the dimensions already applied
C6_Witness ==
  /\ last_resize # <<>>
  /\ ValidPositive(last_resize[1])
  /\ size_before = pty_size
  /\ pty_size = <<2, 1>>

(***************************************************************************)
(* Specifications of the controller.                                       *)
(***************************************************************************)
InitCtl == Init /\ broker

\* what a peer can publish on the status topic
StatusTokens == {"shell_ready", "shell_restarting", "shell_error_restarting",
                 "shell_exited", "other"}

\* the key loop and the input publish task, every key of the keyboard
NextKeys ==
  \/ \E sz \in {<<>>, <<term_size>>} : CtlStart(sz)
  \/ \E ev \in KeyEvents : key_serial < MaxTyped /\ HandleKey(ev)
  \/ InputPublish

SpecKeys == InitCtl /\ [][NextKeys]_vars

\* the bytes a peer can publish on the out topic: A, the two bytes of
\* e-acute, and a byte that occurs in no UTF-8 text
OutBytes == {65, 195, 169, 255}

OutPayloads ==
  {<<a>> : a \in OutBytes} \cup {<<a, b>> : a \in OutBytes, b \in OutBytes}

\* the event loop task rendering the out topic
NextRender ==
  \/ \E sz \in {<<>>, <<term_size>>} : CtlStart(sz)
  \/ CtlPollConnAck
  \/ \E payload \in OutPayloads : CtlPollOut(payload)

SpecRender == InitCtl /\ [][NextRender]_vars

\* the resize watcher beside the event loop task and the key loop's exit
NextWatch ==
  \/ \E sz \in {<<>>, <<term_size>>} : CtlStart(sz)
  \/ CtlStartFail
  \/ \E sz \in TermSizes : TermResize(sz)
  \/ WatcherPoll
  \/ CtlPollConnAck
  \/ CtlPollErr
  \/ \E token \in StatusTokens : CtlPollStatus(token)
  \/ CtlExitOnSignal

SpecWatch == InitCtl /\ [][NextWatch]_vars

\* the keys typed on the way from the controller's key loop to the PTY
InputKeys ==
  {[kind |-> "key", code |-> "Char", arg |-> 97, mods |-> {}],
   [kind |-> "key", code |-> "Up", arg |-> 0, mods |-> {}],
   [kind |-> "key", code |-> "Esc", arg |-> 0, mods |-> {}]}

\* the input path end to end: key loop, input publish task, the in topic,
\* the agent's transport loop, Input Relay and PTY writer, across epochs
NextInput ==
  \/ \E sz \in {<<>>, <<term_size>>} : CtlStart(sz)
  \/ \E ev \in InputKeys : HandleKey(ev)
  \/ InputPublish
  \/ CtlPollConnAck
  \/ CtlPollStatus("shell_exited")
  \/ LoseIn
  \/ DeliverIn
  \/ WriterStep
  \/ WriterFail
  \/ NewEpoch
  \/ ChildExit
  \/ MainAbort
  \/ MainSettle
  \/ Ready
  \/ PollConnAck
  \/ PollErr
  \/ BackoffDone

SpecInput == InitCtl /\ [][NextInput]_vars

\* C7: the payloads written to the PTY within one epoch are in the order in
\* which the controller's key loop encoded them, none twice, each one whole
\* (a payload is a key's serial number with the bytes the encoder gave it).
C7_InputOrder ==
  /\ \A i \in 1..Len(pty_written) : \A j \in 1..Len(pty_written) :
       i < j => pty_written[i].id < pty_written[j].id
  /\ \A i \in 1..Len(pty_written) :
       pty_written[i].bytes \in {<<97>>, <<Esc, 91, 65>>}

\* C7 witness: the first and the third key reached the PTY, the second was lost
C7_Witness ==
  /\ Len(pty_written) = 2
  /\ pty_written[1].id = 1
  /\ pty_written[2].id = 3

RECURSIVE Concat(_)
Concat(ss) == IF ss = <<>> THEN <<>> ELSE Head(ss) \o Concat(Tail(ss))

\* C8: what the controller wrote to standard output for the out topic is
\* exactly the bytes of the payloads received, in order, unchanged.
C8_OutputVerbatim == out_rendered = Concat(out_received)

\* the table of the claim: the UTF-8 bytes of the characters typed
Utf8Table(cp) ==
  CASE cp = 113 -> <<113>>
    [] cp = 99 -> <<99>>
    [] cp = 122 -> <<122>>
    [] cp = 97 -> <<97>>
    [] cp = 65 -> <<65>>
    [] cp = 233 -> <<195, 169>>
    [] cp = 8364 -> <<226, 130, 172>>
    [] cp = 128512 -> <<240, 159, 152, 128>>

\* the table of the claim: the numeric codes of F5..F12
FnCodes == <<15, 17, 18, 19, 20, 21, 23, 24>>

\* the table of the claim: <<bytes>> for the one sequence sent, <<>> for none
KeyTable(ev) ==
  IF ev.kind # "key" THEN <<>>
  ELSE IF ev.code = "Char"
    THEN IF ev.mods = {} \/ ev.mods = {"SHIFT"} THEN <<Utf8Table(ev.arg)>>
         ELSE IF ev.mods = {"CONTROL"} /\ ev.arg = 99 THEN << <<3>> >>
         ELSE IF ev.mods = {"CONTROL"} /\ ev.arg = 122 THEN << <<26>> >>
         ELSE <<>>
  ELSE IF ev.code = "F"
    THEN IF ev.arg >= 1 /\ ev.arg <= 4 THEN << <<27, 79, 79 + ev.arg>> >>
         ELSE IF ev.arg >= 5 /\ ev.arg <= 12
           THEN << <<27, 91, 48 + (FnCodes[ev.arg - 4] \div 10),
                     48 + (FnCodes[ev.arg - 4] % 10), 126>> >>
           ELSE <<>>
  ELSE CASE ev.code = "Enter" -> << <<13>> >>
         [] ev.code = "Backspace" -> << <<127>> >>
         [] ev.code = "Tab" -> << <<9>> >>
         [] ev.code = "Up" -> << <<27, 91, 65>> >>
         [] ev.code = "Down" -> << <<27, 91, 66>> >>
         [] ev.code = "Right" -> << <<27, 91, 67>> >>
         [] ev.code = "Left" -> << <<27, 91, 68>> >>
         [] ev.code = "Home" -> << <<27, 91, 72>> >>
         [] ev.code = "End" -> << <<27, 91, 70>> >>
         [] ev.code = "PageUp" -> << <<27, 91, 53, 126>> >>
         [] ev.code = "PageDown" -> << <<27, 91, 54, 126>> >>
         [] ev.code = "Delete" -> << <<27, 91, 51, 126>> >>
         [] ev.code = "Insert" -> << <<27, 91, 50, 126>> >>
         [] OTHER -> <<>>

\* C9: the key loop queues for each key event exactly what the table states
\* (named keys whatever their modifiers, characters only unmodified, with
\* Shift, or as Ctrl+C / Ctrl+Z), and queues what it sent in that form.
C9_KeyTable ==
  last_key # <<>> =>
    /\ last_sent = KeyTable(last_key[1])
    /\ Len(last_sent) <= 1

\* C9 witness: F6 was pressed and ESC [ 1 7 ~ queued
C9_Witness ==
  /\ last_key = <<[kind |-> "key", code |-> "F", arg |-> 6, mods |-> {}]>>
  /\ tx_input # <<>>
  /\ tx_input[1].bytes = <<27, 91, 49, 55, 126>>

NoRepeat(s) == \A i \in 1..(Len(s) - 1) : s[i] # s[i + 1]

\* the resize message for a terminal size <<cols, rows>>
JsonOfSize(sz) == [json |-> TRUE, rows |-> <<sz[2]>>, cols |-> <<sz[1]>>]

\* C10 as claimed: the watcher never publishes the same dimensions twice in a
\* row, and after every poll the last published dimensions are the observed ones.
C10_PublishOnEveryChange ==
  /\ NoRepeat(resize_pub)
  /\ watch_seen # <<>> => Last(resize_pub) = JsonOfSize(watch_seen[1])

\* C10 amended: the same, the second part while the controller's event loop
\* task is running (a publish made after it ended fails and is ignored).
C10_PublishOnChangeWhileConnected ==
  /\ NoRepeat(resize_pub)
  /\ (watch_seen # <<>> /\ ctl_eventloop = "run")
       => Last(resize_pub) = JsonOfSize(watch_seen[1])

\* C10 witness: 80x24 at start, then a change to 120x40 was published and a
\* poll that saw no further change published nothing
C10_Witness ==
  /\ resize_pub = <<JsonOfSize(<<80, 24>>), JsonOfSize(<<120, 40>>),
                    JsonOfSize(<<120, 24>>)>>
  /\ watch_seen = << <<120, 24>> >>
  /\ ctl_eventloop = "run"

(***************************************************************************)
(* The controller's session: startup, key loop, event loop task.           *)
(***************************************************************************)
CtrlQ == [kind |-> "key", code |-> "Char", arg |-> 113, mods |-> {"CONTROL"}]

\* the keys pressed during a session
SessionKeys ==
  {CtrlQ,
   [kind |-> "key", code |-> "Char", arg |-> 99, mods |-> {"CONTROL"}],
   [kind |-> "key", code |-> "Char", arg |-> 97, mods |-> {}],
   [kind |-> "key", code |-> "Esc", arg |-> 0, mods |-> {}]}

NextSession ==
  \/ \E sz \in {<<>>, <<term_size>>} : CtlStart(sz)
  \/ CtlStartFail
  \/ \E ev \in SessionKeys : key_serial < MaxSessionKeys /\ HandleKey(ev)
  \/ KeyReadFail
  \/ InputPublish
  \/ CtlPollConnAck
  \/ CtlPollErr
  \/ \E payload \in {<<65>>, <<255>>} : CtlPollOut(payload)
  \/ \E token \in StatusTokens : CtlPollStatus(token)
  \/ CtlExitOnSignal
  \/ \E sz \in TermSizes : ctl_main = "start" /\ TermResize(sz)
  \/ BrokerChange

SpecSession == InitCtl /\ [][NextSession]_vars

\* the tokens the agent's code sends into the status channel (lines 73, 84, 96)
AgentTokens == {"shell_ready", "shell_restarting", "shell_error_restarting"}

\* the broker hands a token the agent published on the status topic in this
\* epoch to the controller's event loop (QoS 0: any of them, any number of times)
StatusDeliver ==
  \E i \in 1..Len(status_published) : CtlPollStatus(status_published[i])

\* the agent and the controller on one broker, the agent being the only
\* publisher on the status topic
NextStatus ==
  \/ NewEpoch
  \/ ChildExit
  \/ MainAbort
  \/ MainSettle
  \/ ReaderEof
  \/ ReaderErr
  \/ Ready
  \/ PollConnAck
  \/ PollErr
  \/ BackoffDone
  \/ StatusForward
  \/ \E sz \in {<<>>, <<term_size>>} : CtlStart(sz)
  \/ CtlPollConnAck
  \/ CtlPollErr
  \/ StatusDeliver

SpecStatus == InitCtl /\ [][NextStatus]_vars

\* C11: once raw mode was on, the controller's main has ended only after a
\* Ctrl+Q key event or after the status payload shell_exited was received,
\* with the terminal mode restored; Ctrl+Q queued nothing for the peer.
C11_EndsOnlyOnQuitOrExited ==
  /\ (ctl_main \in {"exited", "failed"} /\ ctl_error \notin StartErrors)
       => /\ (last_key = <<CtrlQ>> \/ ctl_eventloop = "ended")
          /\ ~raw_mode
  /\ last_key = <<CtrlQ>> => last_sent = <<>>

\* C13: a broker subscribe or publish failure never ends a process: neither
\* the controller's main nor the agent's main or transport task has ended
\* on one, and the agent's transport is in its backoff after each failure.
C13_BrokerFailureRecoverable ==
  /\ ctl_error \notin {"subscribe", "publish"}
  /\ mqtt_task # "panicked"
  /\ fails > 0 => mqtt_task \in {"backoff", "connect", "ready", "aborted"}

\* C12: the controller's transport follows the agent's reconnect loop: every
\* sleep after a transport error is the delay that loop would use (the delay
\* as reset by the last successful subscribe), and every connection made
\* after an error has the out and status topics subscribed again.
C12_SameReconnectMachine ==
  /\ \A k \in 1..Len(ctl_sleeps) : ctl_sleeps[k] = DelayOnSubscribed(ctl_sleeps[k])
  /\ ctl_conn => ctl_subscribed

C15_ForwardingStopsOnlyOnFailure ==
  [][ /\ (publish_task = "run" /\ publish_task' = "ended") => ~eventloop
      /\ (status_task = "run" /\ status_task' = "ended") => ~eventloop ]_vars

\* C16: once the orchestrator has aborted the transport loop, the old event
\* loop is gone, and whenever the transport loop of an epoch is ready no
\* forwarding task of the previous epoch is still running.
C16_RestartCancelsOldTransport ==
  /\ mainPc \in {"settle", "create"} => ~eventloop
  /\ mqtt_task = "ready" => ~old_forwarders

\* a step of the transport loop from ready through backoff to the next
\* connect and ready, inside one epoch
ReconnectStep ==
  \/ mqtt_task = "ready" /\ mqtt_task' = "backoff"
  \/ mqtt_task = "backoff" /\ mqtt_task' = "connect"
  \/ mqtt_task = "connect" /\ mqtt_task' \in {"ready", "backoff"}

\* C17: a broker reconnect inside an epoch changes neither the child, the
\* PTY's size, the reader and writer workers, the two channels nor the
\* Input Relay, and ends no forwarding task other than by aborting it.
C17_ReconnectKeepsSession ==
  [][ReconnectStep =>
        /\ UNCHANGED <<mainPc, child, reader, nread, output_ch, status_ch>>
        /\ UNCHANGED <<pty_size, input_q, writer, pty_written>>
        /\ publish_task' \in {publish_task, "aborted", "run"}
        /\ status_task' \in {status_task, "aborted", "run"}]_vars

\* C17 witness: a second connection of an epoch is ready (not yet
\* acknowledged) with the PTY at the size a resize message of the first gave it
C17_Witness ==
  /\ mqtt_task = "ready"
  /\ fails >= 1
  /\ child = "running"
  /\ pty_size = <<2, 1>>

\* C18: the backoff delay is always one of 1, 2, 4, 8, 16, 30; it is 1 when
\* a transport loop starts, min(2 * delay, 30) after every sleep, 1 after
\* both subscribes succeeded; a failed subscribe goes to the sleep without
\* starting a forwarding task.
C18_DelayValues ==
  /\ [](reconnect_delay \in {1, 2, 4, 8, 16, 30})
  /\ [][(mqtt_task \notin {"connect", "ready", "backoff"} /\ mqtt_task' = "connect")
         => reconnect_delay' = 1]_vars
  /\ [][(mqtt_task = "backoff" /\ mqtt_task' = "connect")
         => reconnect_delay' = Min(2 * reconnect_delay, 30)]_vars
  /\ [][(mqtt_task = "connect" /\ mqtt_task' = "ready") => reconnect_delay' = 1]_vars
  /\ [][(mqtt_task = "connect" /\ mqtt_task' = "backoff")
         => UNCHANGED <<reconnect_delay, publish_task, status_task, out_next, sta_next>>]_vars

\* C18 witness: the transport sleeps with the delay at its cap
C18_Witness == mqtt_task = "backoff" /\ reconnect_delay = 30

\* C19: a PTY session is created only when no child is running and the
\* transport loop of the epoch before is gone; it starts at 24 x 80 with an
\* empty Input Relay; input and resize messages change a PTY only through
\* the transport loop of the epoch that owns it, while its session exists.
C19_OneSessionAtATime ==
  /\ [](mainPc \in {"settle", "create"} =>
         (child # "running" /\ mqtt_task \notin {"connect", "ready", "backoff"}))
  /\ [][(mainPc = "create" /\ mainPc' = "wait")
         => /\ child' = "running"
            /\ pty_size' = <<24, 80>>
            /\ input_q' = <<>>
            /\ pty_written' = <<>>]_vars
  /\ [][(mainPc' # "wait" \/ mainPc # "wait" \/ mqtt_task # "ready")
         => ( /\ Len(input_q') <= Len(input_q)
              /\ (pty_size' = pty_size \/ mainPc = "create") )]_vars

\* C19 witness: a later epoch's PTY was resized and written to
C19_Witness ==
  /\ restarted
  /\ mainPc = "wait"
  /\ pty_size = <<2, 1>>
  /\ pty_written # <<>>

RECURSIVE Drain(_, _, _)
\* the number of values a receiver at cursor next still gets from the channel
Drain(ch, next, cap) ==
  LET r == BroadcastRecv(ch, next, cap)
  IN IF r.kind = "pending" THEN 0
     ELSE (IF r.kind = "ok" THEN 1 ELSE 0) + Drain(ch, r.next, cap)

C21_NeverShellExited ==
  /\ \A i \in 1..Len(status_ch) : status_ch[i] \in AgentTokens
  /\ \A i \in 1..Len(status_published) : status_published[i] \in AgentTokens
  /\ exit_signal = 0
  /\ ctl_eventloop # "ended"
  /\ ctl_main # "exited"
  /\ ~ENABLED CtlExitOnSignal

\* C21 witness: a restarted agent published the token of a read error on the
\* status topic while the controller was connected and subscribed, and the
\* controller's event loop task is still running
C21_Witness ==
  /\ restarted
  /\ Count(status_published, "shell_error_restarting") = 1
  /\ ctl_main = "loop"
  /\ ctl_conn
  /\ ctl_subscribed
  /\ ctl_eventloop = "run"
  /\ ENABLED StatusDeliver

\* C22: the step that starts a shell epoch sends shell_ready while the new
\* status channel has no receiver, so the channel is empty after it; a status
\* receiver created later starts behind everything sent before; hence
\* shell_ready is never in the status channel and never published on the
\* status topic.
C22_ShellReadyNeverPublished ==
  /\ [][(mainPc = "create" /\ mainPc' = "wait")
          => (status_ch' = <<>> /\ status_task' = "none" /\ mqtt_task' = "connect")]_vars
  /\ [][(status_task # "run" /\ status_task' = "run")
          => (mqtt_task = "connect" /\ sta_next' = Len(status_ch') + 1)]_vars
  /\ [](Count(status_ch, "shell_ready") = 0)
  /\ [](Count(status_published, "shell_ready") = 0)

\* C22 witness: in a later epoch the transport is ready and connected, its
\* status task is waiting on the channel, the shell still runs, and nothing
\* is in the channel or on the status topic
C22_Witness ==
  /\ restarted
  /\ child = "running"
  /\ mqtt_task = "ready"
  /\ conn_up
  /\ status_task = "run"
  /\ sta_next = 1
  /\ status_ch = <<>>
  /\ status_published = <<>>

====
